---- MODULE Spec2Model ----
(***************************************************************************)
(* Model of test-client.py, the Web Thing conformance test client.         *)
(*                                                                         *)
(* run_client is one sequential process.  Every step of the model is one   *)
(* blocking interaction of run_client with the device under test (an HTTP  *)
(* request with its response, a WebSocket send, a WebSocket receive, a     *)
(* sleep) together with the assertions the code makes on the reply.  The   *)
(* device is opaque to the client: each reply is drawn from a bounded set  *)
(* of replies, conformant or not.  An assertion that fails (or any other   *)
(* exception) unwinds run_client: pc becomes "failed", failedAt names the  *)
(* step, and the locals of run_client are dropped.                         *)
(***************************************************************************)
EXTENDS Integers, Sequences, FiniteSets, TLC

\* ------------------------------------------------------------ bounds
\* Action ids the device may assign (the last segment of an action href).
MaxId == 2
\* Instants a well-formed timestamp may denote: 0..MaxT.
MaxT == 1
\* How many propertyStatus messages the device sends before the first
\* `created` actionStatus (the loop that skips them is unbounded in the code).
MaxSkip == 2
\* Longest event log the device returns.
MaxEvents == 3
\* Longest `links` sequence and longest tag list a validator is applied to.
MaxLinks == 4
MaxTags == 3
\* Longest lag of a request, in half seconds.
MaxLag == 1
\* Runs of the client against one device instance.
MaxRuns == 2

\* ------------------------------------------------- program constants
InitialBrightness == 50
SleepMs == 2500
PutBrightnessValue == 25
WsBrightnessValue == 10
OverheatedData == 102
RestFadeBrightness == 50
RestFadeDuration == 2000
Ws1FadeBrightness == 90
Ws1FadeDuration == 1000
Ws2FadeBrightness == 100
Ws2FadeDuration == 500

\* Time, in ms, in steps of half a second.  The device takes some
\* CompletionTimes to complete a fade; a request reaches the device some Lags
\* after the client is ready to send it.
Lags == {500 * k : k \in 0 .. MaxLag}
CompletionTimes == {500 * k : k \in 1 .. (SleepMs \div 500) + MaxLag}

\* ---------------------------------------------------------- domains
ActionIds == 1 .. MaxId
NoId == 0
NoMsg == [messageType |-> "none"]

\* A timestamp string, by what _TIME_REGEX can tell of it: whether it has the
\* shape YYYY-MM-DDTHH:MM:SS+HH:MM ("offset") or not ("bad": absent, or any
\* other shape), and the instant a well-formed one denotes.
Timestamps ==
    {[fmt |-> "bad", t |-> 0]} \cup {[fmt |-> "offset", t |-> k] : k \in 0 .. MaxT}

\* re.match(_TIME_REGEX, s) is not None
TimeRegexMatches(ts) == ts.fmt = "offset"

Statuses == {"created", "pending", "completed"}

\* The fade inputs (brightness, duration) a device may echo.
Inputs ==
    { [brightness |-> RestFadeBrightness, duration |-> RestFadeDuration],
      [brightness |-> Ws1FadeBrightness, duration |-> Ws1FadeDuration],
      [brightness |-> Ws2FadeBrightness, duration |-> Ws2FadeDuration] }

RestInput == [brightness |-> RestFadeBrightness, duration |-> RestFadeDuration]
Ws1Input == [brightness |-> Ws1FadeBrightness, duration |-> Ws1FadeDuration]
Ws2Input == [brightness |-> Ws2FadeBrightness, duration |-> Ws2FadeDuration]

BrightnessValues ==
    {WsBrightnessValue, PutBrightnessValue, InitialBrightness,
     Ws1FadeBrightness, Ws2FadeBrightness}

\* The href of an action, by what the client reads of it: NoId when it does
\* not start with _PATH_PREFIX + '/actions/fade/', else its last segment,
\* href.split('/')[-1].
Hrefs == {NoId} \cup ActionIds

\* href.startswith(_PATH_PREFIX + '/actions/fade/')
HrefStartsWithPrefix(href) == href # NoId

\* An action envelope as the client reads it: nkeys is len(envelope.keys())
\* (the `fade` key is one of them).
ActionEnvelopes ==
    [nkeys : 1 .. 2, input : Inputs, href : Hrefs,
     status : Statuses, timeRequested : Timestamps, timeCompleted : Timestamps]

\* An entry the device still lists for action id i, well-formed and completed.
ListedAction(i) ==
    [nkeys |-> 1, input |-> RestInput, href |-> i,
     status |-> "completed",
     timeRequested |-> [fmt |-> "offset", t |-> 0],
     timeCompleted |-> [fmt |-> "offset", t |-> 0]]

\* The bodies of GET /actions and GET /actions/fade.  The client reads
\* len(body) and body[0] only, so every element after the first is one of
\* the ListedAction entries, and no listing is longer than two.
ActionListings ==
    {<<>>} \cup
    {<<e>> : e \in ActionEnvelopes} \cup
    {<<e, ListedAction(i)>> : e \in ActionEnvelopes, i \in ActionIds}

\* An event envelope: nkeys is len(envelope.keys()) (`overheated` is one of
\* them), data and timestamp are those of envelope['overheated'].
EventTimestamps == {ts \in Timestamps : ts.t = 0}

EventEnvelopes ==
    [nkeys : 1 .. 2, data : {OverheatedData, 0}, timestamp : EventTimestamps]

EventListings == UNION {[1 .. n -> EventEnvelopes] : n \in 0 .. MaxEvents}

\* HTTP status codes the device answers with.
Codes == {200, 201, 204, 404}

\* http_request returns (code, body).  hasBody is FALSE when the response
\* has no body (http_request returns None for it, and `body` is then the
\* placeholder `none`, which the client cannot read).  The device answers
\* `code` with one of `bodies` or with no body, or any other code (with no
\* body: the client rejects the code before it reads the body).
HttpResponses(code, bodies, none) ==
    {[code |-> code, hasBody |-> TRUE, body |-> b] : b \in bodies} \cup
    {[code |-> c, hasBody |-> FALSE, body |-> none] : c \in Codes}

\* ------------------------------------------------------- WebSocket
\* The messages the device may push, already parsed by json.loads.
PropertyStatusMsgs ==
    [messageType : {"propertyStatus"}, brightness : BrightnessValues]

\* nkeys is len(message['data'].keys()) (the `fade` key is one of them).
ActionStatusMsgs ==
    [messageType : {"actionStatus"}, nkeys : 1 .. 2, input : Inputs, href : Hrefs,
     status : Statuses, timeRequested : Timestamps, timeCompleted : Timestamps]

EventMsgs ==
    [messageType : {"event"}, data : {OverheatedData, 0}, timestamp : EventTimestamps]

\* A messageType the protocol does not define.
OtherMsgs == {[messageType |-> "bogus"]}

\* ws.recv() on a connection the device has closed raises.
ClosedMsg == [messageType |-> "closed"]

Messages ==
    PropertyStatusMsgs \cup ActionStatusMsgs \cup EventMsgs \cup OtherMsgs \cup {ClosedMsg}

\* ----------------------------------------------------- description
\* lists_equal(a, b), on sequences of tags.
Range(f) == {f[i] : i \in DOMAIN f}

lists_equal(a, b) ==
    IF Len(a) # Len(b)
    THEN FALSE
    ELSE Cardinality(Range(a) \cap Range(b)) = Len(a)

ExpectedTypes == <<"OnOffSwitch", "Light">>

\* A link of the description, by what the client reads of it.  href is
\* "properties", "actions", "events" for _PATH_PREFIX + '/properties' ...,
\* "root" for _PATH_PREFIX itself, "ws" / "wss" for a URL that matches
\* ws://[^/]+_PATH_PREFIX resp. wss://[^/]+_PATH_PREFIX, "elsewhere" for any
\* other.  mediaType is "absent" when the link has no such key.
Links ==
    [rel : {"properties", "actions", "events", "alternate", "other"},
     href : {"properties", "actions", "events", "root", "ws", "wss", "elsewhere"},
     mediaType : {"absent", "text/html", "other"}]

Link(rel, href, mediaType) == [rel |-> rel, href |-> href, mediaType |-> mediaType]

PropertiesLink == Link("properties", "properties", "absent")
ActionsLink == Link("actions", "actions", "absent")
EventsLink == Link("events", "events", "absent")
HtmlLink == Link("alternate", "root", "text/html")
WsLink == Link("alternate", "ws", "absent")
WssLink == Link("alternate", "wss", "absent")
BadHtmlLink == Link("alternate", "elsewhere", "text/html")

\* body['links'][n:]
Drop(s, n) == SubSeq(s, n + 1, Len(s))

\* The required prefix of body['links'] (lines 157-170).
LinksPrefixOK(links, skipActionsEvents) ==
    IF skipActionsEvents
    THEN /\ Len(links) >= 1
         /\ links[1].rel = "properties" /\ links[1].href = "properties"
    ELSE /\ Len(links) >= 3
         /\ links[1].rel = "properties" /\ links[1].href = "properties"
         /\ links[2].rel = "actions" /\ links[2].href = "actions"
         /\ links[3].rel = "events" /\ links[3].href = "events"

remaining_links(links, skipActionsEvents) ==
    IF skipActionsEvents THEN Drop(links, 1) ELSE Drop(links, 3)

\* AlternateLinksOK with the channel URL matched against either scheme.
AlternateLinksOKAnyScheme(rem, proto) ==
    \A i \in DOMAIN rem :
        rem[i].rel = "alternate" =>
            IF rem[i].mediaType # "absent"
            THEN rem[i].mediaType = "text/html" /\ rem[i].href = "root"
            ELSE rem[i].href \in {"ws", "wss"}

\* The assertions of the loop over remaining_links (lines 176-186): every
\* alternate link with a mediaType is the HTML one, every other alternate
\* link is a channel URL of the scheme that mirrors proto.
AlternateLinksOK(rem, proto) ==
    \A i \in DOMAIN rem :
        rem[i].rel = "alternate" =>
            IF rem[i].mediaType # "absent"
            THEN rem[i].mediaType = "text/html" /\ rem[i].href = "root"
            ELSE rem[i].href = (IF proto = "https" THEN "wss" ELSE "ws")

\* ws_href after the loop: the href of the last alternate link without a
\* mediaType, "None" when there is none.
WsHref(rem) ==
    LET idx == {i \in DOMAIN rem :
                   rem[i].rel = "alternate" /\ rem[i].mediaType = "absent"}
    IN  IF idx = {} THEN "None"
        ELSE rem[CHOOSE i \in idx : \A j \in idx : j <= i].href

\* Lines 157-188 as a whole.
LinksOK(links, proto, skipActionsEvents, skipWebsocket) ==
    /\ LinksPrefixOK(links, skipActionsEvents)
    /\ \/ skipWebsocket
       \/ LET rem == remaining_links(links, skipActionsEvents)
          IN  /\ Len(rem) >= 1
              /\ AlternateLinksOK(rem, proto)
              /\ WsHref(rem) # "None"

\* The descriptions the device serves.  fields says whether the literal
\* fields of lines 115-136 (except @type) are as asserted, capabilities
\* whether those of lines 139-155 are.
DescriptionLinks ==
    { <<PropertiesLink, ActionsLink, EventsLink, HtmlLink, WsLink>>,
      <<PropertiesLink, ActionsLink, EventsLink, WsLink, HtmlLink>>,
      <<PropertiesLink, ActionsLink, EventsLink, HtmlLink>>,
      <<PropertiesLink, ActionsLink, EventsLink, WssLink>>,
      <<PropertiesLink, ActionsLink, EventsLink, BadHtmlLink, WsLink>>,
      <<PropertiesLink, HtmlLink, WsLink>>,
      <<ActionsLink, PropertiesLink, EventsLink, HtmlLink, WsLink>>,
      <<PropertiesLink, ActionsLink, EventsLink>>,
      <<>> }

DescriptionTypes ==
    { <<"OnOffSwitch", "Light">>, <<"Light", "OnOffSwitch">>,
      <<"Light", "Light">>, <<"Light">> }

Descriptions ==
    [fields : BOOLEAN, types : DescriptionTypes, capabilities : BOOLEAN,
     links : DescriptionLinks]

NoDescription ==
    [fields |-> FALSE, types |-> <<>>, capabilities |-> FALSE, links |-> <<>>]

\* The assertions of lines 114-188 on the response to GET /.
DescriptionOK(r, skipActionsEvents, skipWebsocket) ==
    /\ r.code = 200
    /\ r.hasBody
    /\ r.body.fields
    /\ lists_equal(r.body.types, ExpectedTypes)
    /\ skipActionsEvents \/ r.body.capabilities
    /\ LinksOK(r.body.links, "http", skipActionsEvents, skipWebsocket)

\* ------------------------------------------------------------ state
VARIABLES
    pc,                   \* the step run_client takes next; "done", "failed"
    failedAt,             \* the step whose assertion failed, "none" before
    SKIP_ACTIONS_EVENTS,  \* _SKIP_ACTIONS_EVENTS
    SKIP_WEBSOCKET,       \* _SKIP_WEBSOCKET
    run,                  \* which run of the client against the device this is
    ws_href,              \* the channel URL found in the description
    wsState,              \* "none", "open", "closed": the WebSocket connection;
                          \* "stalled": open, and the device sends nothing more
    action_id,            \* the id of the action being driven, NoId for None
    received,             \* the flags of the unordered-suffix loop
    wsLog,                \* what was received since the last ws.send, while
                          \* the exchange it started is running
    suffix,               \* what the running unordered loop has received
    rejected,             \* the message on which the run failed
    brightnessRead,       \* the brightness the last accepted REST reply carried
    lastHttp,             \* code and hasBody of the last accepted HTTP reply
    accepted,             \* the action envelope the step just taken accepted,
                          \* NoAction when it accepted none
    described,            \* of the description the step just taken accepted,
                          \* whether its links pass the assertions of lines
                          \* 172-188: "conform", "nonconform"; "none" when the
                          \* step accepted no description
    eventLog,             \* the data of the events of the last accepted listing
    completedIds,         \* the ids the client has seen completed
    deletedIds,           \* the ids the client has deleted
    nRequested,           \* fade actions requested so far
    nCompleted,           \* of those, the ones seen completed
    overheated,           \* the overheated event of the action requested over
                          \* the channel before the subscription: "none",
                          \* "due" (not yet in the device's log), "logged"
    needs,                \* ms the device takes to complete the REST action in
                          \* flight, from its creation; 0 when there is none
    elapsed,              \* ms since that creation
    brightness,           \* the brightness of the device, as the last reply or
                          \* message the client checked reported it; 0 before
    call                  \* a call of a validator function on its own: its
                          \* arguments and, once applied, its result

config == <<SKIP_ACTIONS_EVENTS, SKIP_WEBSOCKET, run>>
locals == <<ws_href, action_id, received>>
wsObserved == <<wsLog, suffix>>
restObserved == <<brightnessRead, lastHttp, eventLog>>
counts == <<completedIds, deletedIds, nRequested, nCompleted>>
device == <<overheated, needs, elapsed, brightness>>
vars ==
    <<pc, failedAt, config, wsState, locals, wsObserved, rejected, restObserved,
      accepted, described, counts, device, call>>

NoAction ==
    [via |-> "none", count |-> 0, nkeys |-> 0, href |-> NoId, status |-> "none",
     stamped |-> FALSE, inOrder |-> FALSE]

NoHttp == [code |-> 0, hasBody |-> FALSE]

\* What is kept of a message the client received and checked: its
\* messageType, the status of an actionStatus, and the value of a
\* propertyStatus or an event.
Digest(m) ==
    [messageType |-> m.messageType,
     status |-> IF m.messageType = "actionStatus" THEN m.status ELSE "none",
     value |-> IF m.messageType = "propertyStatus" THEN m.brightness
               ELSE IF m.messageType = "event" THEN m.data
               ELSE 0]

\* What is kept of a message the client received and skipped without
\* reading its data.
Unread(m) == [messageType |-> m.messageType, status |-> "none", value |-> 0]

NoCall == [fn |-> "none"]

\* The state in which run_client is entered.
Entry ==
    /\ pc = "GetDescription"
    /\ failedAt = "none"
    /\ SKIP_ACTIONS_EVENTS \in BOOLEAN
    /\ SKIP_WEBSOCKET \in BOOLEAN
    /\ run = 1
    /\ ws_href = "None"
    /\ wsState = "none"
    /\ action_id = NoId
    /\ received = <<>>
    /\ wsLog = <<>>
    /\ suffix = <<>>
    /\ rejected = NoMsg
    /\ brightnessRead = 0
    /\ lastHttp = NoHttp
    /\ accepted = NoAction
    /\ described = "none"
    /\ eventLog = <<>>
    /\ completedIds = {}
    /\ deletedIds = {}
    /\ nRequested = 0
    /\ nCompleted = 0
    /\ overheated = "none"
    /\ needs = 0
    /\ elapsed = 0
    /\ brightness = 0

Init == Entry /\ call = NoCall

\* Fail with the exception caught and run_client returning normally.
FailSwallowed(at, m) ==
    /\ pc' = "done"
    /\ failedAt' = at
    /\ rejected' = m
    /\ accepted' = NoAction
    /\ described' = "none"
    /\ UNCHANGED <<config, wsState, locals, wsObserved, restObserved, counts, device,
                   call>>

\* Fail with the failure recorded and the step tried again.
FailRetries(at, m) ==
    /\ pc' = at
    /\ failedAt' = at
    /\ rejected' = m
    /\ accepted' = NoAction
    /\ described' = "none"
    /\ UNCHANGED <<config, wsState, locals, wsObserved, restObserved, counts, device,
                   call>>

\* A failed assertion, or any other exception, at step `at`: run_client is
\* unwound (nothing catches it), its locals and what it had observed are gone;
\* the connection, if open, is left as it is.  m is the WebSocket message the
\* step had received, NoMsg for a step that receives none.
Fail(at, m) ==
    /\ pc' = "failed"
    /\ failedAt' = at
    /\ rejected' = m
    /\ ws_href' = "None"
    /\ action_id' = NoId
    /\ received' = <<>>
    /\ wsLog' = <<>>
    /\ suffix' = <<>>
    /\ brightnessRead' = 0
    /\ lastHttp' = NoHttp
    /\ accepted' = NoAction
    /\ described' = "none"
    /\ eventLog' = <<>>
    /\ completedIds' = {}
    /\ deletedIds' = {}
    /\ nRequested' = 0
    /\ nCompleted' = 0
    /\ overheated' = "none"
    /\ needs' = 0
    /\ elapsed' = 0
    /\ brightness' = 0
    /\ UNCHANGED <<config, wsState, call>>

\* The step succeeded, accepting envelope `a` as that of a completed
\* action: run_client goes on to step `next`.
GotoAccepting(next, a) ==
    /\ pc' = next
    /\ accepted' = a
    /\ described' = "none"
    /\ UNCHANGED <<failedAt, config, rejected, call>>

\* The step succeeded: run_client goes on to step `next`.
Goto(next) == GotoAccepting(next, NoAction)

Accepted(r) == [code |-> r.code, hasBody |-> r.hasBody]

\* What is kept of the links of a description the client accepted: whether
\* the assertions of lines 172-188 hold of them, whether they were run or not.
Described(links, skipActionsEvents) ==
    IF LinksOK(links, "http", skipActionsEvents, FALSE)
    THEN "conform"
    ELSE "nonconform"

\* AfterRest without the return of line 329.
AfterRestIgnoringSkip == "WsConnect"

\* Lines 328-329: after the REST checks run_client returns under
\* --skip-websocket, and else opens the channel.
AfterRest == IF SKIP_WEBSOCKET THEN "done" ELSE "WsConnect"

\* ------------------------------------------------ description, properties
\* A device that has passed a run serves the same description to the next.
SameDescription(r) ==
    run > 1 => DescriptionOK(r, SKIP_ACTIONS_EVENTS, SKIP_WEBSOCKET)

\* Lines 113-188: GET / and the checks of the Thing Description.
GetDescription ==
    /\ pc = "GetDescription"
    /\ \E r \in HttpResponses(200, Descriptions, NoDescription) :
          /\ SameDescription(r)
          /\ IF DescriptionOK(r, SKIP_ACTIONS_EVENTS, SKIP_WEBSOCKET)
             THEN /\ pc' = "GetProperties"
                  /\ accepted' = NoAction
                  /\ described' = Described(r.body.links, SKIP_ACTIONS_EVENTS)
                  /\ UNCHANGED <<failedAt, config, rejected, call>>
                  /\ ws_href' = IF SKIP_WEBSOCKET THEN "None"
                                ELSE WsHref(remaining_links(r.body.links, SKIP_ACTIONS_EVENTS))
                  /\ lastHttp' = Accepted(r)
                  /\ UNCHANGED <<device, wsState, action_id, received, wsObserved,
                                 brightnessRead, eventLog, counts>>
             ELSE Fail("GetDescription", NoMsg)

PropertiesBodies == [brightness : BrightnessValues, on : BOOLEAN]
NoProperties == [brightness |-> 0, on |-> FALSE]
BrightnessBodies == [brightness : BrightnessValues]
NoBrightness == [brightness |-> 0]

\* BrightnessOK without the assertion on the value.
BrightnessOKAnyValue(r, value) ==
    /\ r.code = 200
    /\ r.hasBody

\* code == 200 and body['brightness'] == value
BrightnessOK(r, value) ==
    /\ r.code = 200
    /\ r.hasBody
    /\ r.body.brightness = value

\* A device that has passed a run keeps its brightness: until the next run
\* writes it, a read returns the value the device reported last.
SameBrightness(at, r) ==
    (run > 1 /\ at \in {"GetProperties", "GetBrightness1"}) =>
        /\ r.code = 200
        /\ r.hasBody
        /\ r.body.brightness = brightness

\* A property request whose reply must carry brightness `value`.
PropertyStep(at, next, bodies, none, value) ==
    /\ pc = at
    /\ \E r \in HttpResponses(200, bodies, none) :
          /\ SameBrightness(at, r)
          /\ IF BrightnessOK(r, value) /\ (at = "GetProperties" => r.body.on)
             THEN /\ Goto(next)
                  /\ brightnessRead' = r.body.brightness
                  /\ brightness' = r.body.brightness
                  /\ lastHttp' = Accepted(r)
                  /\ UNCHANGED <<overheated, needs, elapsed, wsState, locals,
                                 wsObserved, eventLog, counts>>
             ELSE Fail(at, NoMsg)

\* Lines 191-194: GET /properties.
GetProperties ==
    PropertyStep("GetProperties", "GetBrightness1", PropertiesBodies, NoProperties,
                 InitialBrightness)

\* Lines 196-198: GET /properties/brightness.
GetBrightness1 ==
    PropertyStep("GetBrightness1", "PutBrightness", BrightnessBodies, NoBrightness,
                 InitialBrightness)

\* Lines 200-202: PUT /properties/brightness {'brightness': 25}.
PutBrightness ==
    PropertyStep("PutBrightness", "GetBrightness2", BrightnessBodies, NoBrightness,
                 PutBrightnessValue)

\* Lines 204-206 and the branch of line 208: GET /properties/brightness.
GetBrightness2 ==
    PropertyStep("GetBrightness2",
                 IF SKIP_ACTIONS_EVENTS THEN AfterRest ELSE "GetEvents0",
                 BrightnessBodies, NoBrightness, PutBrightnessValue)

\* ------------------------------------------------------ events (REST)
\* ExpectedEventCount with the last check still expecting the events of the
\* two REST actions only.
ExpectedEventCountStale(at) ==
    CASE at = "GetEvents0" -> 0
      [] at = "GetEvents1" -> 1
      [] at = "GetEventsOverheated1" -> 1
      [] at = "GetEvents3" -> 2

\* len(body) the client asserts at each check of the event log
\* (lines 212, 269, 276, 449).
ExpectedEventCount(at) ==
    CASE at = "GetEvents0" -> 0
      [] at = "GetEvents1" -> 1
      [] at = "GetEventsOverheated1" -> 1
      [] at = "GetEvents3" -> 3

\* The one entry the client reads at each check: body[0] at lines 270-272
\* and 277-279, body[2] at lines 450-452, none at line 212.
CheckedEventIndex(at) ==
    CASE at = "GetEvents0" -> 0
      [] at = "GetEvents1" -> 1
      [] at = "GetEventsOverheated1" -> 1
      [] at = "GetEvents3" -> 3

\* EventEnvelopeOK without the assertion on the data.
EventEnvelopeOKAnyData(e) ==
    /\ e.nkeys = 1
    /\ TimeRegexMatches(e.timestamp)

\* The assertions on one event envelope (lines 270-272).
EventEnvelopeOK(e) ==
    /\ e.nkeys = 1
    /\ e.data = OverheatedData
    /\ TimeRegexMatches(e.timestamp)

\* The assertions on the reply to GET /events or GET /events/overheated.
EventsOK(r, count, index) ==
    /\ r.code = 200
    /\ r.hasBody
    /\ Len(r.body) = count
    /\ index > 0 => EventEnvelopeOK(r.body[index])

EventData(listing) == [i \in 1 .. Len(listing) |-> listing[i].data]

EventsStep(at, next) ==
    /\ pc = at
    /\ \E r \in HttpResponses(200, EventListings, <<>>) :
          IF EventsOK(r, ExpectedEventCount(at), CheckedEventIndex(at))
          THEN /\ Goto(next)
               /\ eventLog' = EventData(r.body)
               /\ lastHttp' = Accepted(r)
               /\ overheated' = "none"
               /\ UNCHANGED <<needs, elapsed, brightness, wsState, locals, wsObserved,
                              brightnessRead, counts>>
          ELSE Fail(at, NoMsg)

\* Lines 210-212: GET /events, before any action.
GetEvents0 == EventsStep("GetEvents0", "GetActions0")

\* Lines 267-272: GET /events, after the first action.
GetEvents1 == EventsStep("GetEvents1", "GetEventsOverheated1")

\* Lines 274-279: GET /events/overheated.
GetEventsOverheated1 == EventsStep("GetEventsOverheated1", "PostActionsFade")

\* Lines 447-452: GET /events, after the first WebSocket action.
GetEvents3 == EventsStep("GetEvents3", "WsSendAddEventSubscription")

\* ----------------------------------------------------- actions (REST)
NoEnvelope ==
    [nkeys |-> 0, input |-> RestInput, href |-> NoId, status |-> "none",
     timeRequested |-> [fmt |-> "bad", t |-> 0],
     timeCompleted |-> [fmt |-> "bad", t |-> 0]]

\* Lines 215-217: GET /actions, before any action.
GetActions0 ==
    /\ pc = "GetActions0"
    /\ \E r \in HttpResponses(200, ActionListings, <<>>) :
          IF r.code = 200 /\ r.hasBody /\ Len(r.body) = 0
          THEN /\ Goto("PostActions")
               /\ lastHttp' = Accepted(r)
               /\ UNCHANGED <<device, wsState, locals, wsObserved, brightnessRead,
                              eventLog, counts>>
          ELSE Fail("GetActions0", NoMsg)

\* The assertions on the reply to the POST of a fade action (lines 230-234).
CreatedOK(r, input) ==
    /\ r.code = 201
    /\ r.hasBody
    /\ r.body.input = input
    /\ HrefStartsWithPrefix(r.body.href)
    /\ r.body.status = "created"

\* What is kept of the envelope of a POST response the client accepted.
Created(at, e) ==
    [via |-> at, count |-> 1, nkeys |-> e.nkeys, href |-> e.href,
     status |-> e.status, stamped |-> FALSE, inOrder |-> FALSE]

PostStep(at, next) ==
    /\ pc = at
    /\ \E r \in HttpResponses(201, ActionEnvelopes, NoEnvelope) :
          IF CreatedOK(r, RestInput)
          THEN /\ GotoAccepting(next, Created(at, r.body))
               /\ action_id' = r.body.href
               /\ nRequested' = nRequested + 1
               /\ lastHttp' = Accepted(r)
               /\ needs' \in CompletionTimes
               /\ elapsed' = 0
               /\ UNCHANGED <<overheated, brightness, wsState, ws_href, received, wsObserved,
                              brightnessRead, eventLog, completedIds, deletedIds,
                              nCompleted>>
          ELSE Fail(at, NoMsg)

\* Lines 219-235: POST /actions.
PostActions == PostStep("PostActions", "Sleep1")

\* Lines 281-297: POST /actions/fade.
PostActionsFade == PostStep("PostActionsFade", "Sleep2")

\* Sleep with the wait ten times shorter.
SleepShort(at, next) ==
    /\ pc = at
    /\ Goto(next)
    /\ \E lag \in Lags : elapsed' = elapsed + (SleepMs \div 10) + lag
    /\ UNCHANGED <<overheated, needs, brightness, wsState, locals, wsObserved, restObserved,
                   counts>>

\* Lines 238 and 300: time.sleep(2.5).  The next request reaches the device
\* when the sleep, which lasts at least 2.5 s, and the `lag` of the
\* scheduler and of the network have gone by.
Sleep(at, next) ==
    /\ pc = at
    /\ Goto(next)
    /\ \E lag \in Lags : elapsed' = elapsed + SleepMs + lag
    /\ UNCHANGED <<overheated, needs, brightness, wsState, locals, wsObserved, restObserved,
                   counts>>

Sleep1 == Sleep("Sleep1", "GetActions1")
Sleep2 == Sleep("Sleep2", "GetActions2")

\* body[0]['fade']['href'] == _PATH_PREFIX + '/actions/fade/' + action_id
HrefIs(href, id) == HrefStartsWithPrefix(href) /\ href = id

\* CompletedEnvelopeOK without the assertion on the number of keys.
CompletedEnvelopeOKAnyKeys(e, input, id) ==
    /\ e.input = input
    /\ HrefIs(e.href, id)
    /\ TimeRegexMatches(e.timeRequested)
    /\ TimeRegexMatches(e.timeCompleted)
    /\ e.status = "completed"

\* CompletedEnvelopeOK without the assertion on timeCompleted.
CompletedEnvelopeOKUnstamped(e, input, id) ==
    /\ e.nkeys = 1
    /\ e.input = input
    /\ HrefIs(e.href, id)
    /\ TimeRegexMatches(e.timeRequested)
    /\ e.status = "completed"

\* The assertions on the one entry of a listing (lines 243-249).
CompletedEnvelopeOK(e, input, id) ==
    /\ e.nkeys = 1
    /\ e.input = input
    /\ HrefIs(e.href, id)
    /\ TimeRegexMatches(e.timeRequested)
    /\ TimeRegexMatches(e.timeCompleted)
    /\ e.status = "completed"

\* ListingOK asserting len(body) >= 1 instead of len(body) == 1.
ListingOKAnyLength(r, input, id) ==
    /\ r.code = 200
    /\ r.hasBody
    /\ Len(r.body) >= 1
    /\ CompletedEnvelopeOK(r.body[1], input, id)

\* The assertions on the reply to GET /actions or GET /actions/fade
\* (lines 241-249).
ListingOK(r, input, id) ==
    /\ r.code = 200
    /\ r.hasBody
    /\ Len(r.body) = 1
    /\ CompletedEnvelopeOK(r.body[1], input, id)

\* What is kept of an envelope accepted at step `at` from a reply of `count`
\* entries: its id and status, whether both its timestamps have the fixed
\* format, and whether timeCompleted is no earlier than timeRequested.
Observed(at, count, e) ==
    [via |-> at, count |-> count, nkeys |-> e.nkeys, href |-> e.href,
     status |-> e.status,
     stamped |-> TimeRegexMatches(e.timeRequested) /\ TimeRegexMatches(e.timeCompleted),
     inOrder |-> e.timeCompleted.t >= e.timeRequested.t]

ListingStep(at, next, input) ==
    /\ pc = at
    /\ \E r \in HttpResponses(200, ActionListings, <<>>) :
          IF ListingOK(r, input, action_id)
          THEN /\ GotoAccepting(next, Observed(at, Len(r.body), r.body[1]))
               /\ completedIds' = completedIds \cup {r.body[1].href}
               /\ nCompleted' = nRequested
               /\ lastHttp' = Accepted(r)
               /\ needs' = 0
               /\ elapsed' = 0
               /\ UNCHANGED <<overheated, brightness, wsState, locals, wsObserved, brightnessRead, eventLog,
                              deletedIds, nRequested>>
          ELSE Fail(at, NoMsg)

\* Lines 240-249 and 302-311: GET /actions.
GetActions1 == ListingStep("GetActions1", "GetActionsFade1", RestInput)
GetActions2 == ListingStep("GetActions2", "GetActionsFade2", RestInput)

\* Lines 251-260 and 313-322: GET /actions/fade.
GetActionsFade1 == ListingStep("GetActionsFade1", "DeleteAction1", RestInput)
GetActionsFade2 == ListingStep("GetActionsFade2", "DeleteAction2", RestInput)

\* Lines 428-437: GET /actions, after the first WebSocket action.
GetActions3 == ListingStep("GetActions3", "GetActionById", Ws1Input)

\* The assertions on the reply to DELETE /actions/fade/{id} (lines 263-264).
DeletedOK(r) ==
    /\ r.code = 204
    /\ ~r.hasBody

DeleteStep(at, next) ==
    /\ pc = at
    /\ \E r \in HttpResponses(204, {[deleted |-> TRUE]}, [deleted |-> FALSE]) :
          IF DeletedOK(r)
          THEN /\ Goto(next)
               /\ deletedIds' = deletedIds \cup {action_id}
               /\ lastHttp' = Accepted(r)
               /\ UNCHANGED <<device, wsState, locals, wsObserved, brightnessRead, eventLog,
                              completedIds, nRequested, nCompleted>>
          ELSE Fail(at, NoMsg)

\* Lines 262-264: DELETE /actions/fade/{id} of the first action.
DeleteAction1 == DeleteStep("DeleteAction1", "GetEvents1")

\* Lines 324-326: DELETE /actions/fade/{id} of the second action.
DeleteAction2 == DeleteStep("DeleteAction2", AfterRest)

\* SingleActionOK without the assertion on the status.
SingleActionOKAnyStatus(r, id) ==
    /\ r.code = 200
    /\ r.hasBody
    /\ r.body.nkeys = 1
    /\ HrefIs(r.body.href, id)
    /\ TimeRegexMatches(r.body.timeRequested)
    /\ TimeRegexMatches(r.body.timeCompleted)

\* The assertions on the reply to GET /actions/fade/{id} (lines 440-445).
SingleActionOK(r, id) ==
    /\ r.code = 200
    /\ r.hasBody
    /\ r.body.nkeys = 1
    /\ HrefIs(r.body.href, id)
    /\ TimeRegexMatches(r.body.timeRequested)
    /\ TimeRegexMatches(r.body.timeCompleted)
    /\ r.body.status = "completed"

\* Lines 439-445: GET /actions/fade/{id}.
GetActionById ==
    /\ pc = "GetActionById"
    /\ \E r \in HttpResponses(200, ActionEnvelopes, NoEnvelope) :
          IF SingleActionOK(r, action_id)
          THEN /\ GotoAccepting("GetEvents3", Observed("GetActionById", 1, r.body))
               /\ completedIds' = completedIds \cup {r.body.href}
               /\ nCompleted' = nRequested
               /\ lastHttp' = Accepted(r)
               /\ UNCHANGED <<device, wsState, locals, wsObserved, brightnessRead, eventLog,
                              deletedIds, nRequested>>
          ELSE Fail("GetActionById", NoMsg)

\* -------------------------------------------------- WebSocket session
\* Lines 332-336: ws.connect(ws_href).
WsConnect ==
    /\ pc = "WsConnect"
    /\ Goto("WsSendSetProperty")
    /\ wsState' = "open"
    /\ UNCHANGED <<device, locals, wsObserved, restObserved, counts>>

\* The steps that block in ws.recv().
ReceiveSteps ==
    {"WsRecvPropertyStatus", "WsRecvCreated1", "WsRecvPending1", "WsRecvSuffix1",
     "WsRecvCreated2", "WsRecvPending2", "WsRecvSuffix2"}

\* The device keeps the connection open and sends nothing more.  The socket
\* of line 332 has no timeout, so the ws.recv() the client is in, or calls
\* next, does not return.
DeviceStopsSending ==
    /\ pc \in ReceiveSteps
    /\ wsState = "open"
    /\ wsState' = "stalled"
    /\ UNCHANGED <<pc, failedAt, config, locals, wsObserved, rejected, restObserved,
                   accepted, described, counts, device, call>>

\* The device appends the overheated event of the fade to its log, at any
\* time after the request: the order of this and of the notifications of the
\* fade is not fixed.
DeviceLogsEvent ==
    /\ overheated = "due"
    /\ overheated' = "logged"
    /\ UNCHANGED <<pc, failedAt, config, wsState, locals, wsObserved, rejected,
                   restObserved, accepted, described, counts, needs, elapsed, brightness,
                   call>>

\* Lines 356-361: ws.send of setProperty {'brightness': 10}.
WsSendSetProperty ==
    /\ pc = "WsSendSetProperty"
    /\ Goto("WsRecvPropertyStatus")
    /\ wsLog' = <<>>
    /\ UNCHANGED <<device, wsState, locals, suffix, restObserved, counts>>

\* PropertyStatusOK without the assertion on the value.
PropertyStatusOKAnyValue(m, value) ==
    m.messageType = "propertyStatus"

\* The assertions of lines 363-364.
PropertyStatusOK(m, value) ==
    /\ m.messageType = "propertyStatus"
    /\ m.brightness = value

\* Lines 362-364: the reply to setProperty.
WsRecvPropertyStatus ==
    /\ pc = "WsRecvPropertyStatus"
    /\ wsState = "open"
    /\ \E m \in Messages :
          IF PropertyStatusOK(m, WsBrightnessValue)
          THEN /\ Goto("GetBrightness3")
               /\ wsLog' = Append(wsLog, Digest(m))
               /\ brightness' = m.brightness
               /\ UNCHANGED <<overheated, needs, elapsed, wsState, locals, suffix,
                              restObserved, counts>>
          ELSE Fail("WsRecvPropertyStatus", m)

\* Lines 366-371: GET /properties/brightness, and the return under
\* --skip-actions-events.
GetBrightness3 ==
    PropertyStep("GetBrightness3",
                 IF SKIP_ACTIONS_EVENTS THEN "done" ELSE "WsSendRequestAction1",
                 BrightnessBodies, NoBrightness, WsBrightnessValue)

\* ws.send of a requestAction (lines 374-384 and 461-471).
SendRequestAction(at, next) ==
    /\ pc = at
    /\ Goto(next)
    /\ wsLog' = <<>>
    /\ nRequested' = nRequested + 1
    /\ overheated' = IF at = "WsSendRequestAction1" THEN "due" ELSE overheated
    /\ UNCHANGED <<needs, elapsed, brightness, wsState, locals, suffix, restObserved,
                   completedIds, deletedIds, nCompleted>>

WsSendRequestAction1 == SendRequestAction("WsSendRequestAction1", "WsRecvCreated1")

\* StatusMsgOK without the assertion on the status.
StatusMsgOKAnyStatus(m, input, status) ==
    /\ m.messageType = "actionStatus"
    /\ m.input = input
    /\ HrefStartsWithPrefix(m.href)

\* The assertions on an actionStatus of the fixed-order prefix
\* (lines 394-398, 400-404).
StatusMsgOK(m, input, status) ==
    /\ m.messageType = "actionStatus"
    /\ m.input = input
    /\ HrefStartsWithPrefix(m.href)
    /\ m.status = status

\* Lines 387-398: the loop that skips propertyStatus messages, and the
\* checks of the first other message.  The device sends at most MaxSkip
\* propertyStatus messages here.
WsRecvCreated1 ==
    /\ pc = "WsRecvCreated1"
    /\ wsState = "open"
    /\ \E m \in (IF Len(wsLog) < MaxSkip THEN Messages
                  ELSE Messages \ PropertyStatusMsgs) :
          IF m.messageType = "propertyStatus"
          THEN /\ Goto("WsRecvCreated1")
               /\ wsLog' = Append(wsLog, Unread(m))
               /\ UNCHANGED <<device, wsState, locals, suffix, restObserved, counts>>
          ELSE IF StatusMsgOK(m, Ws1Input, "created")
          THEN /\ Goto("WsRecvPending1")
               /\ wsLog' = Append(wsLog, Digest(m))
               /\ UNCHANGED <<device, wsState, locals, suffix, restObserved, counts>>
          ELSE Fail("WsRecvCreated1", m)

\* Lines 399-408: the `pending` actionStatus, then the reset of action_id
\* and of the flags.
WsRecvPending1 ==
    /\ pc = "WsRecvPending1"
    /\ wsState = "open"
    /\ \E m \in Messages :
          IF StatusMsgOK(m, Ws1Input, "pending")
          THEN /\ Goto("WsRecvSuffix1")
               /\ wsLog' = Append(wsLog, Digest(m))
               /\ action_id' = NoId
               /\ received' = <<FALSE, FALSE>>
               /\ suffix' = <<>>
               /\ UNCHANGED <<device, wsState, ws_href, restObserved, counts>>
          ELSE Fail("WsRecvPending1", m)

\* Whether no assertion of the body of the first unordered loop fails on m,
\* and the else branch does not raise (lines 412-423).
Suffix1Accepts(m) ==
    \/ PropertyStatusOK(m, Ws1FadeBrightness)
    \/ StatusMsgOK(m, Ws1Input, "completed")

\* Suffix1Received with the actionStatus branch setting both flags.
Suffix1ReceivedBothFlags(flags, m) ==
    IF m.messageType = "propertyStatus" THEN [flags EXCEPT ![1] = TRUE]
    ELSE IF m.messageType = "actionStatus" THEN [flags EXCEPT ![1] = TRUE, ![2] = TRUE]
    ELSE flags

\* The flags after the body of the first unordered loop has run on m.
Suffix1Received(flags, m) ==
    IF m.messageType = "propertyStatus" THEN [flags EXCEPT ![1] = TRUE]
    ELSE IF m.messageType = "actionStatus" THEN [flags EXCEPT ![2] = TRUE]
    ELSE flags

\* One iteration of an unordered loop of `n` iterations on a message the
\* loop accepts.
SuffixIteration(at, check, n, m, flags) ==
    /\ GotoAccepting(IF Len(suffix) + 1 = n THEN check ELSE at,
                     IF m.messageType = "actionStatus" THEN Observed(at, 1, m)
                     ELSE NoAction)
    /\ suffix' = Append(suffix, Digest(m))
    /\ received' = flags
    /\ IF m.messageType = "actionStatus"
       THEN /\ completedIds' = completedIds \cup {m.href}
            /\ nCompleted' = nRequested
            /\ action_id' = IF at = "WsRecvSuffix1" THEN m.href ELSE action_id
       ELSE UNCHANGED <<completedIds, nCompleted, action_id>>
    /\ brightness' = IF m.messageType = "propertyStatus" THEN m.brightness
                     ELSE brightness
    /\ UNCHANGED <<overheated, needs, elapsed, wsState, ws_href, wsLog, restObserved,
                   deletedIds, nRequested>>

\* Lines 409-423: one iteration of `for _ in range(0, 2)`.
WsRecvSuffix1 ==
    /\ pc = "WsRecvSuffix1"
    /\ wsState = "open"
    /\ \E m \in Messages :
          IF Suffix1Accepts(m)
          THEN SuffixIteration("WsRecvSuffix1", "CheckReceived1", 2, m,
                               Suffix1Received(received, m))
          ELSE Fail("WsRecvSuffix1", m)

\* for r in received: assert r
AllReceived(flags) == \A i \in DOMAIN flags : flags[i]

CheckReceived(at, next) ==
    /\ pc = at
    /\ IF AllReceived(received)
       THEN /\ Goto(next)
            /\ wsLog' = <<>>
            /\ suffix' = <<>>
            /\ UNCHANGED <<device, wsState, locals, restObserved, counts>>
       ELSE Fail(at, NoMsg)

\* Lines 425-426.
CheckReceived1 == CheckReceived("CheckReceived1", "GetActions3")

\* Lines 455-460: ws.send of addEventSubscription {'overheated': {}}.
WsSendAddEventSubscription ==
    /\ pc = "WsSendAddEventSubscription"
    /\ Goto("WsSendRequestAction2")
    /\ wsLog' = <<>>
    /\ UNCHANGED <<device, wsState, locals, suffix, restObserved, counts>>

WsSendRequestAction2 == SendRequestAction("WsSendRequestAction2", "WsRecvCreated2")

\* The assertions on an actionStatus of the second fixed-order prefix
\* (lines 473-478, 480-485).
StatusMsg2OK(m, status) ==
    /\ StatusMsgOK(m, Ws2Input, status)
    /\ TimeRegexMatches(m.timeRequested)

\* Lines 472-478: the `created` actionStatus.
WsRecvCreated2 ==
    /\ pc = "WsRecvCreated2"
    /\ wsState = "open"
    /\ \E m \in Messages :
          IF StatusMsg2OK(m, "created")
          THEN /\ Goto("WsRecvPending2")
               /\ wsLog' = Append(wsLog, Digest(m))
               /\ UNCHANGED <<device, wsState, locals, suffix, restObserved, counts>>
          ELSE Fail("WsRecvCreated2", m)

\* Lines 479-488: the `pending` actionStatus, then the reset of the flags.
WsRecvPending2 ==
    /\ pc = "WsRecvPending2"
    /\ wsState = "open"
    /\ \E m \in Messages :
          IF StatusMsg2OK(m, "pending")
          THEN /\ Goto("WsRecvSuffix2")
               /\ wsLog' = Append(wsLog, Digest(m))
               /\ received' = <<FALSE, FALSE, FALSE>>
               /\ suffix' = <<>>
               /\ UNCHANGED <<device, wsState, ws_href, action_id, restObserved, counts>>
          ELSE Fail("WsRecvPending2", m)

\* The assertions on an event message (lines 496-497).
EventMsgOK(m) ==
    /\ m.messageType = "event"
    /\ m.data = OverheatedData
    /\ TimeRegexMatches(m.timestamp)

\* The assertions on the `completed` actionStatus (lines 500-505).
CompletedMsg2OK(m) ==
    /\ StatusMsg2OK(m, "completed")
    /\ TimeRegexMatches(m.timeCompleted)

\* Suffix2Accepts without the assertion on the brightness of the
\* propertyStatus.
Suffix2AcceptsAnyBrightness(m) ==
    \/ m.messageType = "propertyStatus"
    \/ EventMsgOK(m)
    \/ CompletedMsg2OK(m)
    \/ m.messageType \notin {"propertyStatus", "event", "actionStatus", "closed"}

\* Whether no assertion of the body of the second unordered loop fails on
\* m (lines 492-506).  The if/elif chain has no else: a message of any
\* other messageType passes through it.
Suffix2Accepts(m) ==
    \/ PropertyStatusOK(m, Ws2FadeBrightness)
    \/ EventMsgOK(m)
    \/ CompletedMsg2OK(m)
    \/ m.messageType \notin {"propertyStatus", "event", "actionStatus", "closed"}

\* Suffix2Received with the propertyStatus branch setting the event flag too.
Suffix2ReceivedEventByProperty(flags, m) ==
    IF m.messageType = "propertyStatus" THEN [flags EXCEPT ![1] = TRUE, ![2] = TRUE]
    ELSE IF m.messageType = "event" THEN [flags EXCEPT ![2] = TRUE]
    ELSE IF m.messageType = "actionStatus" THEN [flags EXCEPT ![3] = TRUE]
    ELSE flags

\* The flags after the body of the second unordered loop has run on m.
Suffix2Received(flags, m) ==
    IF m.messageType = "propertyStatus" THEN [flags EXCEPT ![1] = TRUE]
    ELSE IF m.messageType = "event" THEN [flags EXCEPT ![2] = TRUE]
    ELSE IF m.messageType = "actionStatus" THEN [flags EXCEPT ![3] = TRUE]
    ELSE flags

\* Lines 489-506: one iteration of `for _ in range(0, 3)`.
WsRecvSuffix2 ==
    /\ pc = "WsRecvSuffix2"
    /\ wsState = "open"
    /\ \E m \in Messages :
          IF Suffix2Accepts(m)
          THEN SuffixIteration("WsRecvSuffix2", "CheckReceived2", 3, m,
                               Suffix2Received(received, m))
          ELSE Fail("WsRecvSuffix2", m)

\* Lines 508-509.
CheckReceived2 == CheckReceived("CheckReceived2", "WsClose")

\* Line 511: ws.close(), and the return of run_client.
WsClose ==
    /\ pc = "WsClose"
    /\ Goto("done")
    /\ wsState' = "closed"
    /\ UNCHANGED <<device, locals, wsObserved, restObserved, counts>>

\* Line 562 once more: after a run that returned, the client is started
\* again with the same options against the same device instance.  The new
\* process has nothing of what the previous one held or observed; the device
\* is as the previous run left it.
RunAgain ==
    /\ pc = "done"
    /\ run < MaxRuns
    /\ run' = run + 1
    /\ pc' = "GetDescription"
    /\ failedAt' = "none"
    /\ ws_href' = "None"
    /\ wsState' = "none"
    /\ action_id' = NoId
    /\ received' = <<>>
    /\ wsLog' = <<>>
    /\ suffix' = <<>>
    /\ rejected' = NoMsg
    /\ brightnessRead' = 0
    /\ lastHttp' = NoHttp
    /\ accepted' = NoAction
    /\ described' = "none"
    /\ eventLog' = <<>>
    /\ completedIds' = {}
    /\ deletedIds' = {}
    /\ nRequested' = 0
    /\ nCompleted' = 0
    /\ UNCHANGED <<SKIP_ACTIONS_EVENTS, SKIP_WEBSOCKET, device, call>>

\* ------------------------------------------------------ specification
Next ==
    \/ GetDescription
    \/ GetProperties
    \/ GetBrightness1
    \/ PutBrightness
    \/ GetBrightness2
    \/ GetEvents0
    \/ GetActions0
    \/ PostActions
    \/ Sleep1
    \/ GetActions1
    \/ GetActionsFade1
    \/ DeleteAction1
    \/ GetEvents1
    \/ GetEventsOverheated1
    \/ PostActionsFade
    \/ Sleep2
    \/ GetActions2
    \/ GetActionsFade2
    \/ DeleteAction2
    \/ WsConnect
    \/ WsSendSetProperty
    \/ WsRecvPropertyStatus
    \/ GetBrightness3
    \/ WsSendRequestAction1
    \/ WsRecvCreated1
    \/ WsRecvPending1
    \/ WsRecvSuffix1
    \/ CheckReceived1
    \/ GetActions3
    \/ GetActionById
    \/ GetEvents3
    \/ WsSendAddEventSubscription
    \/ WsSendRequestAction2
    \/ WsRecvCreated2
    \/ WsRecvPending2
    \/ WsRecvSuffix2
    \/ CheckReceived2
    \/ WsClose
    \/ DeviceStopsSending
    \/ DeviceLogsEvent
    \/ RunAgain

Spec == Init /\ [][Next]_vars

\* Line 562: exit(run_client()).  run_client has no return statement with a
\* value, so where it returns the argument is None and the status 0; an
\* exception that leaves run_client is caught nowhere, and the interpreter
\* ends with status 1.
ReturnValue == "None"
exit(code) == IF code = "None" THEN 0 ELSE 1
ExitStatus == IF pc = "failed" THEN 1 ELSE exit(ReturnValue)

\* ------------------------------------------- the validators on their own
\* The kinds of link a description may hold: the five the client looks for,
\* a channel URL of the other scheme, an HTML alternate that points
\* elsewhere, and a link of another rel.
OtherLink == Link("other", "elsewhere", "absent")
LinkKinds ==
    {PropertiesLink, ActionsLink, EventsLink, HtmlLink, WsLink, WssLink,
     BadHtmlLink, OtherLink}
LinkSeqs == UNION {[1 .. n -> LinkKinds] : n \in 0 .. MaxLinks}

Tags == {"OnOffSwitch", "Light", "Lamp"}
TagLists == UNION {[1 .. n -> Tags] : n \in 0 .. MaxTags}

\* The arguments of one call: body['links'] and _PROTO for the checks of
\* lines 157-188 (the two skip flags are the configuration), or the two
\* lists of lists_equal.
Calls ==
    [fn : {"LinksOK"}, links : LinkSeqs, proto : {"http", "https"},
     applied : {FALSE}, result : {FALSE}]
    \cup
    [fn : {"lists_equal"}, a : TagLists, b : TagLists,
     applied : {FALSE}, result : {FALSE}]

ValidatorInit == Entry /\ call \in Calls

\* Lines 157-188 run on the links of the call.
ApplyLinksOK ==
    /\ call.fn = "LinksOK"
    /\ ~call.applied
    /\ call' = [call EXCEPT !.applied = TRUE,
                            !.result = LinksOK(call.links, call.proto,
                                               SKIP_ACTIONS_EVENTS, SKIP_WEBSOCKET)]
    /\ UNCHANGED <<pc, failedAt, config, wsState, locals, wsObserved, rejected,
                   restObserved, accepted, described, counts, device>>

\* lists_equal(a, b) run on the lists of the call.
ApplyListsEqual ==
    /\ call.fn = "lists_equal"
    /\ ~call.applied
    /\ call' = [call EXCEPT !.applied = TRUE,
                            !.result = lists_equal(call.a, call.b)]
    /\ UNCHANGED <<pc, failedAt, config, wsState, locals, wsObserved, rejected,
                   restObserved, accepted, described, counts, device>>

ValidatorNext == ApplyLinksOK \/ ApplyListsEqual

ValidatorSpec == ValidatorInit /\ [][ValidatorNext]_vars

\* ------------------------------------------------------------ claims
PropertyStatus(value) ==
    [messageType |-> "propertyStatus", status |-> "none", value |-> value]
ActionStatus(status) ==
    [messageType |-> "actionStatus", status |-> status, value |-> 0]
EventNotice == [messageType |-> "event", status |-> "none", value |-> OverheatedData]

\* The messages the first and the second unordered loop wait for.
ExpectedSuffix1 == {PropertyStatus(Ws1FadeBrightness), ActionStatus("completed")}
ExpectedSuffix2 ==
    {PropertyStatus(Ws2FadeBrightness), EventNotice, ActionStatus("completed")}

\* seq holds each element of `expected` exactly once, and nothing else.
OneOfEach(seq, expected) ==
    /\ Len(seq) = Cardinality(expected)
    /\ Range(seq) = expected

\* m has a kind and a content the first (second) unordered loop waits for.
InExpectedSuffix1(m) ==
    \/ m.messageType = "propertyStatus" /\ m.brightness = Ws1FadeBrightness
    \/ /\ m.messageType = "actionStatus"
       /\ m.status = "completed"
       /\ m.input = Ws1Input
       /\ m.href # NoId
InExpectedSuffix2(m) ==
    \/ m.messageType = "propertyStatus" /\ m.brightness = Ws2FadeBrightness
    \/ /\ m.messageType = "event"
       /\ m.data = OverheatedData
       /\ m.timestamp.fmt = "offset"
    \/ /\ m.messageType = "actionStatus"
       /\ m.status = "completed"
       /\ m.input = Ws2Input
       /\ m.href # NoId
       /\ m.timeRequested.fmt = "offset"
       /\ m.timeCompleted.fmt = "offset"

\* C1: the unordered suffix of a requestAction passes if and only if the N
\* messages received (N = 2 without, N = 3 with the event subscription) are
\* one of each expected kind with the expected content, in any order: the
\* check after the loop passes exactly when they are, and the loop itself
\* fails on a message only when it is not an expected one.
C1_UnorderedSuffix ==
    [][ /\ (pc = "CheckReceived1" /\ pc' # pc) =>
             ((pc' # "failed") <=> OneOfEach(suffix, ExpectedSuffix1))
        /\ (pc = "CheckReceived2" /\ pc' # pc) =>
             ((pc' # "failed") <=> OneOfEach(suffix, ExpectedSuffix2))
        /\ (pc = "WsRecvSuffix1" /\ pc' = "failed") => ~InExpectedSuffix1(rejected')
        /\ (pc = "WsRecvSuffix2" /\ pc' = "failed") => ~InExpectedSuffix2(rejected')
      ]_vars

\* The three messages of the second suffix arrived with the completed
\* actionStatus first and the propertyStatus last, and the flags are all set.
C1_Witness ==
    /\ pc = "CheckReceived2"
    /\ AllReceived(received)
    /\ suffix = <<ActionStatus("completed"), EventNotice,
                  PropertyStatus(Ws2FadeBrightness)>>

\* The fixed-order prefix of a requestAction has been received and accepted.
PrefixPassed == pc \in {"WsRecvSuffix1", "CheckReceived1", "WsRecvSuffix2", "CheckReceived2"}
SecondRequest == pc \in {"WsRecvSuffix2", "CheckReceived2"}

\* C2, as claimed: once the prefix of a requestAction is accepted, the first
\* two messages received after the command were actionStatus `created` then
\* actionStatus `pending` (any other message in those two positions fails
\* the run).
C2_FirstTwoMessages ==
    PrefixPassed =>
        /\ Len(wsLog) >= 2
        /\ wsLog[1] = ActionStatus("created")
        /\ wsLog[2] = ActionStatus("pending")

\* C2, amended: once the prefix of a requestAction is accepted, the last two
\* messages received were actionStatus `created` then `pending`, and every
\* message before them was a propertyStatus the client skipped; after the
\* second requestAction nothing was skipped.
C2_Amended ==
    PrefixPassed =>
        LET n == Len(wsLog)
        IN  /\ n >= 2
            /\ wsLog[n - 1] = ActionStatus("created")
            /\ wsLog[n] = ActionStatus("pending")
            /\ \A i \in 1 .. n - 2 : wsLog[i].messageType = "propertyStatus"
            /\ SecondRequest => n = 2

\* The prefix of the first requestAction was accepted after a skipped
\* propertyStatus.
C2_Witness ==
    /\ pc = "WsRecvSuffix1"
    /\ Len(wsLog) = 3
    /\ wsLog[1].messageType = "propertyStatus"

\* Message types the protocol defines for the device.
InboundTypes == {"propertyStatus", "actionStatus", "event"}

\* C3: a message whose messageType the client does not expect fails the run
\* at the receive that delivers it: a run that goes on never holds such a
\* message among those it has received.
C3_UnexpectedIsFatal ==
    /\ \A i \in DOMAIN wsLog : wsLog[i].messageType \in InboundTypes
    /\ \A i \in DOMAIN suffix : suffix[i].messageType \in InboundTypes

\* C4, as claimed: between the propertyStatus that answers setProperty and
\* the `created` actionStatus the client waits for next, no further
\* propertyStatus was received by a run that goes on.
C4_ExactlyOnePropertyStatus ==
    pc = "WsRecvPending1" => Len(wsLog) = 1

\* C4, amended: the first message after setProperty is a propertyStatus with
\* brightness 10, the REST read that follows returns 10, and whatever the
\* client receives between the next command and its `created` actionStatus is
\* a propertyStatus it skipped without reading it.
C4_Amended ==
    /\ pc \in {"GetBrightness3", "WsSendRequestAction1"} =>
          wsLog = <<PropertyStatus(WsBrightnessValue)>>
    /\ pc = "WsSendRequestAction1" => brightnessRead = WsBrightnessValue
    /\ pc = "WsRecvPending1" =>
          /\ wsLog[Len(wsLog)] = ActionStatus("created")
          /\ \A i \in 1 .. Len(wsLog) - 1 : wsLog[i] = Unread(PropertyStatus(0))

\* The `created` actionStatus was accepted after two skipped propertyStatus
\* messages.
C4_Witness ==
    /\ pc = "WsRecvPending1"
    /\ Len(wsLog) = 3
    /\ brightnessRead = WsBrightnessValue

\* The number of messages of type t in seq.
RECURSIVE CountType(_, _)
CountType(seq, t) ==
    IF seq = <<>> THEN 0
    ELSE (IF seq[1].messageType = t THEN 1 ELSE 0) + CountType(Tail(seq), t)

EventChecks == {"GetEvents0", "GetEvents1", "GetEventsOverheated1", "GetEvents3"}
AfterEventChecks ==
    {"GetActions0", "GetEventsOverheated1", "PostActionsFade",
     "WsSendAddEventSubscription"}

\* C6: at every check of the event log the number of events the client
\* expects is the number of fade actions it has requested and seen completed
\* so far (0, then 1, then 3), and the listing it accepts has that length.
C6_ExpectedEventCount ==
    /\ pc \in EventChecks =>
          /\ ExpectedEventCount(pc) = nCompleted
          /\ nCompleted = nRequested
    /\ pc \in AfterEventChecks => Len(eventLog) = nCompleted

\* The last check accepted a listing of three events after three actions.
C6_Witness ==
    /\ pc = "WsSendAddEventSubscription"
    /\ Len(eventLog) = 3
    /\ nCompleted = 3

IsPrefix(a, b) ==
    /\ Len(a) <= Len(b)
    /\ \A i \in 1 .. Len(a) : a[i] = b[i]

\* C7, as claimed: whenever a check of the event log passes, the listing the
\* previous check accepted is an ordered prefix of the listing this one
\* accepts.
C7_EventMonotonicity ==
    [][ (pc \in EventChecks /\ pc' # "failed") => IsPrefix(eventLog, eventLog') ]_vars

\* C7, amended: a check of the event log passes only on a listing of the
\* expected length (0, 1, 1, 3) whose last entry is an event with data 102;
\* the entries before the last are not compared with anything.
C7_Amended ==
    /\ pc = "GetActions0" => eventLog = <<>>
    /\ pc \in {"GetEventsOverheated1", "PostActionsFade"} =>
          eventLog = <<OverheatedData>>
    /\ pc = "WsSendAddEventSubscription" =>
          /\ Len(eventLog) = 3
          /\ eventLog[3] = OverheatedData

\* The last check accepted a listing whose first entry is not the event the
\* earlier checks saw.
C7_Witness ==
    /\ pc = "WsSendAddEventSubscription"
    /\ Len(eventLog) = 3
    /\ eventLog[1] # OverheatedData

\* The steps that query the actions of the device.
ListingQueries == {"GetActions1", "GetActionsFade1", "GetActions2",
                   "GetActionsFade2", "GetActions3"}
ActionQueries == ListingQueries \cup {"GetActionById"}

\* C8: once the client has seen an action id completed, a later query for
\* that id is accepted only if it reports the action completed again.
C8_LifecycleMonotonicity ==
    [][ (accepted'.via \in ActionQueries /\ accepted'.href \in completedIds) =>
            accepted'.status = "completed" ]_vars

\* GET /actions/fade/{id} was accepted for the action that the WebSocket
\* actionStatus and GET /actions had reported completed before.
C8_Witness ==
    /\ pc = "GetEvents3"
    /\ accepted.via = "GetActionById"
    /\ accepted.href = action_id
    /\ accepted.href \in completedIds
    /\ accepted.status = "completed"

\* C9, as claimed: no listing the client accepts after a DELETE holds the id
\* of a deleted action.
C9_DeletedIdAbsent ==
    accepted.via \in ListingQueries => accepted.href \notin deletedIds

\* C9, amended: a DELETE passes only on status 204 with no body, and every
\* listing accepted afterwards has exactly one entry, whose href ends in the
\* id of the action requested last; that id is not compared with the ids of
\* the deleted actions.
C9_Amended ==
    [][ /\ (pc \in {"DeleteAction1", "DeleteAction2"} /\ pc' # "failed") =>
              lastHttp' = [code |-> 204, hasBody |-> FALSE]
        /\ (pc \in ListingQueries /\ pc' \notin {pc, "failed"}) =>
              /\ accepted'.count = 1
              /\ accepted'.href = action_id
      ]_vars

\* After the first DELETE, the listing of the second action was accepted
\* with one entry, whose id is not the deleted one.
C9_Witness ==
    /\ pc = "GetActionsFade2"
    /\ accepted.via = "GetActions2"
    /\ accepted.count = 1
    /\ deletedIds # {}
    /\ accepted.href \notin deletedIds

\* C10, as claimed: an action the client accepts as completed has both
\* timestamps in the fixed format, and timeCompleted is not earlier than
\* timeRequested.
C10_CompletedTimestamps ==
    accepted.status = "completed" => (accepted.stamped /\ accepted.inOrder)

\* C10, amended: an action the client accepts as completed from a REST
\* listing, a REST read of the action, or the actionStatus that follows the
\* event subscription has both timestamps in the fixed format; the timestamps
\* of the first WebSocket action are not checked, and the two timestamps are
\* never compared.
C10_Amended ==
    (accepted.status = "completed" /\ accepted.via # "WsRecvSuffix1") =>
        accepted.stamped

\* GET /actions accepted a completed action whose timeCompleted is earlier
\* than its timeRequested.
C10_Witness ==
    /\ accepted.via = "GetActions1"
    /\ accepted.status = "completed"
    /\ accepted.stamped
    /\ ~accepted.inOrder

\* C11, as claimed: every action envelope the client accepts, in a POST
\* response, a listing, a read of one action or an actionStatus message, has
\* exactly one key.
C11_SingleKeyEnvelope ==
    accepted.via # "none" => accepted.nkeys = 1

\* C11, amended: every action envelope the client accepts from GET /actions,
\* GET /actions/fade or GET /actions/fade/{id} has exactly one key; the
\* envelopes of the POST responses and of the actionStatus messages are read
\* through their `fade` key only.
C11_Amended ==
    accepted.via \in ActionQueries => accepted.nkeys = 1

\* POST /actions was accepted with an envelope that holds a second key.
C11_Witness ==
    /\ pc = "Sleep1"
    /\ accepted.via = "PostActions"
    /\ accepted.nkeys = 2

\* The step `at` either fails the run or goes on to `next` with an accepted
\* reply of code 200 that carries brightness `value`.
ReadsBack(at, next, value) ==
    (pc = at /\ pc' \notin {pc, "failed"}) =>
        /\ pc' = next
        /\ brightnessRead' = value
        /\ lastHttp'.code = 200

\* C12: each write of brightness (PUT 25, setProperty 10) passes only if its
\* own reply echoes the written value, and the step right after it is a REST
\* read of brightness that passes only on code 200 with exactly that value;
\* a step that does not pass fails the run, none is repeated.
C12_ReadYourWrites ==
    [][ /\ ReadsBack("PutBrightness", "GetBrightness2", PutBrightnessValue)
        /\ ReadsBack("GetBrightness2",
                     IF SKIP_ACTIONS_EVENTS THEN AfterRest ELSE "GetEvents0",
                     PutBrightnessValue)
        /\ (pc = "WsSendSetProperty" /\ pc' # pc) => pc' = "WsRecvPropertyStatus"
        /\ (pc = "WsRecvPropertyStatus" /\ pc' \notin {pc, "failed"}) =>
               /\ pc' = "GetBrightness3"
               /\ wsLog' = <<PropertyStatus(WsBrightnessValue)>>
        /\ ReadsBack("GetBrightness3",
                     IF SKIP_ACTIONS_EVENTS THEN "done" ELSE "WsSendRequestAction1",
                     WsBrightnessValue)
      ]_vars

\* Both round trips have passed: the REST read after setProperty returned 10.
C12_Witness ==
    /\ pc = "WsSendRequestAction1"
    /\ wsLog = <<PropertyStatus(WsBrightnessValue)>>
    /\ brightnessRead = WsBrightnessValue
    /\ lastHttp.code = 200

\* The scheme of the channel URL that mirrors proto.
ChannelScheme(proto) == IF proto = "https" THEN "wss" ELSE "ws"

\* The links after the required prefix, and the positions among them of the
\* alternate links that carry a mediaType and of those that carry none.
AfterPrefix(links) == remaining_links(links, SKIP_ACTIONS_EVENTS)
TypedAlternates(rem) ==
    {i \in DOMAIN rem : rem[i].rel = "alternate" /\ rem[i].mediaType # "absent"}
ChannelAlternates(rem) ==
    {i \in DOMAIN rem : rem[i].rel = "alternate" /\ rem[i].mediaType = "absent"}

\* links starts with properties, actions, events (properties alone when
\* actions and events are skipped), each with its own href.
RequiredPrefix(links) ==
    LET want == IF SKIP_ACTIONS_EVENTS THEN <<PropertiesLink>>
                ELSE <<PropertiesLink, ActionsLink, EventsLink>>
    IN  /\ Len(links) >= Len(want)
        /\ \A i \in DOMAIN want :
               links[i].rel = want[i].rel /\ links[i].href = want[i].href

\* The shape the claim describes: the prefix, then alternate links only, of
\* which exactly one is the HTML one and the others, at least one, are
\* channel URLs of the scheme that mirrors proto.
ClaimedShape(links, proto) ==
    LET rem == AfterPrefix(links)
    IN  /\ RequiredPrefix(links)
        /\ \A i \in DOMAIN rem : rem[i].rel = "alternate"
        /\ Cardinality(TypedAlternates(rem)) = 1
        /\ \A i \in TypedAlternates(rem) : rem[i] = HtmlLink
        /\ ChannelAlternates(rem) # {}
        /\ \A i \in ChannelAlternates(rem) : rem[i].href = ChannelScheme(proto)

\* C13, as claimed: the validator accepts a links sequence only if it has
\* the required prefix followed by alternate links only, exactly one of them
\* the HTML alternate and the others channel URLs of the right scheme.
C13_LinksShape ==
    (call.fn = "LinksOK" /\ call.applied /\ call.result) =>
        ClaimedShape(call.links, call.proto)

\* C13, amended: the validator accepts a links sequence exactly when it has
\* the required prefix and, unless the WebSocket checks are skipped, the
\* links after the prefix hold at least one alternate without mediaType,
\* every such link is a channel URL of the scheme that mirrors proto, and
\* every alternate with a mediaType is text/html with the bare path as href;
\* links of another rel, and the number of HTML alternates, do not matter.
C13_Amended ==
    (call.fn = "LinksOK" /\ call.applied) =>
        (call.result <=>
            LET rem == AfterPrefix(call.links)
            IN  /\ RequiredPrefix(call.links)
                /\ \/ SKIP_WEBSOCKET
                   \/ /\ ChannelAlternates(rem) # {}
                      /\ \A i \in ChannelAlternates(rem) :
                             rem[i].href = ChannelScheme(call.proto)
                      /\ \A i \in TypedAlternates(rem) :
                             rem[i].mediaType = "text/html" /\ rem[i].href = "root")

\* With the WebSocket checks on, the validator accepted a sequence with two
\* HTML alternates, a link of another rel and a channel URL.
C13_Witness ==
    /\ call.fn = "LinksOK"
    /\ call.applied
    /\ call.result
    /\ ~SKIP_WEBSOCKET
    /\ call.links = <<PropertiesLink, HtmlLink, HtmlLink, WsLink>>

\* C20: lists_equal(a, b) is true exactly when a and b hold the same set of
\* tags, whatever their order and however often a tag is repeated (so it is
\* true of every list and itself).
C20_SetEquality ==
    (call.fn = "lists_equal" /\ call.applied) =>
        (call.result <=> (Range(call.a) = Range(call.b)))

\* The steps of run_client by the stage they belong to.
DescriptionSteps == {"GetDescription"}
PropertySteps == {"GetProperties", "GetBrightness1", "PutBrightness", "GetBrightness2"}
ActionSteps ==
    {"GetActions0", "PostActions", "Sleep1", "GetActions1", "GetActionsFade1",
     "DeleteAction1", "PostActionsFade", "Sleep2", "GetActions2",
     "GetActionsFade2", "DeleteAction2"}
EventLogSteps == {"GetEvents0", "GetEvents1", "GetEventsOverheated1"}
WebSocketSteps ==
    {"WsConnect", "WsSendSetProperty", "WsRecvPropertyStatus", "GetBrightness3",
     "WsSendRequestAction1", "WsRecvCreated1", "WsRecvPending1", "WsRecvSuffix1",
     "CheckReceived1", "GetActions3", "GetActionById", "GetEvents3",
     "WsSendAddEventSubscription", "WsSendRequestAction2", "WsRecvCreated2",
     "WsRecvPending2", "WsRecvSuffix2", "CheckReceived2", "WsClose"}

\* The rank of the stage of step p in the claimed order; "done" ranks last.
Stage(p) ==
    CASE p \in DescriptionSteps -> 1
      [] p \in PropertySteps -> 2
      [] p \in ActionSteps -> 3
      [] p \in EventLogSteps -> 4
      [] p \in WebSocketSteps -> 5
      [] OTHER -> 6

\* The same with the REST action checks and the event-log checks as one stage.
MergedStage(p) == IF p \in ActionSteps \cup EventLogSteps THEN 3 ELSE Stage(p)

\* A failure ends the run: the step that fails is the last one taken.
FailFast ==
    /\ failedAt' # "none" => pc' = "failed"
    /\ pc = "failed" => pc' = "failed"

\* C14, as claimed: a run never goes from a step of one stage to a step of
\* an earlier stage of the order description, properties, actions (REST),
\* event log, WebSocket session, and a failed assertion ends it.
C14_StageOrder ==
    [][ /\ (pc' # "failed" /\ run' = run) => Stage(pc') >= Stage(pc)
        /\ FailFast ]_vars

\* C14, amended: the same with the REST action checks and the event-log
\* checks taken as one stage, whose steps interleave.
C14_Amended ==
    [][ /\ (pc' # "failed" /\ run' = run) => MergedStage(pc') >= MergedStage(pc)
        /\ FailFast ]_vars

\* The run went through every earlier stage and failed in the last loop of
\* the WebSocket session, the connection still open.
C14_Witness ==
    /\ pc = "failed"
    /\ failedAt = "WsRecvSuffix2"
    /\ rejected.messageType = "event"
    /\ wsState = "open"

\* run_client has ended, by returning or by an exception.
Terminated == pc \in {"done", "failed"}

\* C15: every run terminates: as long as run_client has not ended, the wait
\* it is in completes, times out or fails, so that a further step is possible.
C15_Terminates ==
    Terminated \/ ENABLED Next

\* C16: when run_client has ended on a path on which the connection was
\* opened, the connection has been closed.
C16_ClosedOnEveryPath ==
    Terminated => wsState # "open"

\* C17: when the process ends, its exit status is non-zero if and only if
\* some check of run_client failed.
C17_ExitStatus ==
    Terminated => ((ExitStatus # 0) <=> (failedAt # "none"))

\* run_client returned early under --skip-actions-events, after the checks
\* of the WebSocket setProperty, and the process ends with status 0.
C17_Witness ==
    /\ pc = "done"
    /\ SKIP_ACTIONS_EVENTS
    /\ ~SKIP_WEBSOCKET
    /\ brightnessRead = WsBrightnessValue
    /\ ExitStatus = 0

\* The REST checks that follow the first requestAction sent over the channel.
ChecksAfterChannelAction == {"GetActions3", "GetActionById", "GetEvents3"}

\* C18: when the client sends one of the REST checks that follow the first
\* requestAction of the channel, it has seen the action completed, and when
\* it sends GET /events the overheated event of that action is in the
\* device's log, whatever the order of the device's completion, property
\* change and event emission.
C18_NoRace ==
    /\ pc \in ChecksAfterChannelAction => nCompleted = nRequested
    /\ pc = "GetEvents3" => overheated = "logged"

\* The first status query after a POST, and the POST steps.
FirstQueries == {"GetActions1", "GetActions2"}
PostSteps == {"PostActions", "PostActionsFade"}

\* The harness side of the fixed wait: a POST that passes is followed by the
\* sleep and by nothing else, the query after the sleep is sent no sooner
\* than 2.5 s after the action was created, and it passes only on an action
\* reported completed, without a second try.
FixedWait ==
    /\ (pc \in PostSteps /\ pc' # "failed") =>
           /\ pc' \in {"Sleep1", "Sleep2"}
           /\ elapsed' = 0
    /\ pc' \in FirstQueries => elapsed' >= SleepMs
    /\ (pc \in FirstQueries /\ pc' # "failed") =>
           /\ pc' \in {"GetActionsFade1", "GetActionsFade2"}
           /\ accepted'.status = "completed"

\* C19, as claimed: the fixed wait, and when the query is sent a device that
\* takes no longer than the requested duration has completed the action,
\* and one that takes longer than 2.5 s has not.
C19_FixedGracePeriod ==
    [][ /\ FixedWait
        /\ pc' \in FirstQueries =>
               /\ needs' <= RestFadeDuration => elapsed' >= needs'
               /\ needs' > SleepMs => elapsed' < needs'
      ]_vars

\* C19, amended: the fixed wait, and when the query is sent a device that
\* takes no longer than 2.5 s (so any that takes no longer than the
\* requested duration) has completed the action; one that takes longer may
\* or may not have.
C19_Amended ==
    [][ /\ FixedWait
        /\ pc' \in FirstQueries =>
               /\ needs' <= SleepMs => elapsed' >= needs'
               /\ RestFadeDuration <= SleepMs
      ]_vars

\* The query after the sleep is about to be answered by a device that took
\* longer than 2.5 s and has completed the action all the same.
C19_Witness ==
    /\ pc = "GetActions1"
    /\ needs > SleepMs
    /\ elapsed >= needs

\* The steps that send an HTTP request to an /actions or /events path, or a
\* requestAction or addEventSubscription message.
ActionEventSends ==
    (ActionSteps \ {"Sleep1", "Sleep2"}) \cup EventLogSteps \cup
    ChecksAfterChannelAction \cup
    {"WsSendRequestAction1", "WsSendAddEventSubscription", "WsSendRequestAction2"}

\* With --skip-actions-events no step that sends to the actions or events of
\* the device is reached, and the run has requested, deleted and triggered
\* nothing; with --skip-websocket no step of the channel is reached and no
\* connection exists.
SkippedUntouched ==
    /\ SKIP_ACTIONS_EVENTS =>
           /\ pc \notin ActionEventSends
           /\ nRequested = 0
           /\ deletedIds = {}
           /\ eventLog = <<>>
           /\ overheated = "none"
           /\ needs = 0
    /\ SKIP_WEBSOCKET =>
           /\ pc \notin WebSocketSteps
           /\ wsState = "none"
           /\ ws_href = "None"
           /\ wsLog = <<>>

\* A run that returned went through the stages that were not skipped: the
\* last brightness read is the one of the last property check that was
\* due, the channel was opened unless skipped, and every fade action of the
\* stages that ran was requested.
UnskippedPerformed ==
    pc = "done" =>
        /\ brightnessRead =
               (IF SKIP_WEBSOCKET THEN PutBrightnessValue ELSE WsBrightnessValue)
        /\ ~SKIP_WEBSOCKET => wsState # "none"
        /\ ~SKIP_ACTIONS_EVENTS =>
               /\ nRequested = (IF SKIP_WEBSOCKET THEN 2 ELSE 4)
               /\ nCompleted = nRequested

\* C21, as claimed: the skip options leave the skipped surfaces untouched,
\* and every check of a stage that is not skipped is still performed: a
\* description is accepted only if its links pass the assertions on the
\* alternate links, and a run that returns went through every stage that
\* was not skipped.
C21_SkipFrame ==
    /\ SkippedUntouched
    /\ UnskippedPerformed
    /\ described # "nonconform"

\* C21, amended: the skip options leave the skipped surfaces untouched and
\* a run that returns went through every stage that was not skipped, but
\* the assertions on the links after the required prefix are part of what
\* --skip-websocket skips: only without it is a description accepted only
\* if those links pass them.
C21_Amended ==
    /\ SkippedUntouched
    /\ UnskippedPerformed
    /\ ~SKIP_WEBSOCKET => described # "nonconform"

\* A run under --skip-actions-events alone has returned: it opened the
\* channel, set the brightness over it and read it back, and sent nothing to
\* the actions or events of the device.
C21_Witness ==
    /\ SKIP_ACTIONS_EVENTS
    /\ ~SKIP_WEBSOCKET
    /\ pc = "done"
    /\ wsState = "open"
    /\ brightnessRead = WsBrightnessValue
    /\ nRequested = 0

\* A run with no skip option.
FullRun == ~SKIP_ACTIONS_EVENTS /\ ~SKIP_WEBSOCKET

\* What a full run that returned leaves on the device: the brightness of the
\* last fade, not the initial one; four fade actions requested and
\* completed, each of which logs one overheated event, three of them seen in
\* the log before the last action; and at most two actions deleted, the
\* DELETE requests being those of the REST checks.
LeftBehind ==
    (FullRun /\ pc = "done") =>
        /\ brightness = Ws2FadeBrightness
        /\ brightness # InitialBrightness
        /\ nRequested = 4
        /\ nCompleted = 4
        /\ Len(eventLog) = 3
        /\ Cardinality(deletedIds) <= 2
        /\ nRequested - Cardinality(deletedIds) >= 2

\* The checks of run_client that precede its first write to the device.
InitialChecks == {"GetDescription", "GetProperties"}

\* C22: a full run that returns leaves the device with brightness 100, two
\* fade actions not deleted and four overheated events triggered, and a
\* second full run against the same device never gets past its initial
\* checks: it fails at the assertion that brightness is 50.
C22_StateNotRestored ==
    /\ LeftBehind
    /\ (FullRun /\ run > 1) => pc \in InitialChecks \cup {"failed"}
    /\ (FullRun /\ run > 1 /\ pc = "failed") => failedAt = "GetProperties"

\* The second full run against the device has failed at GET /properties.
C22_Witness ==
    /\ FullRun
    /\ run = 2
    /\ pc = "failed"
    /\ failedAt = "GetProperties"

====
